---- MODULE Spec2Model ----
(***************************************************************************)
(* Model of the shared-memory hostname cache of                            *)
(* src/lib/core/src/hostname_cache.cpp: the process-local globals, the     *)
(* named OS objects (shared-memory object and named sharable mutex), the   *)
(* map that lives in the segment, and the nine public operations.          *)
(***************************************************************************)
EXTENDS Integers, Sequences, FiniteSets, TLC

\* ---------------------------------------------------------------- bounds
MaxCalls    == 4   \* public operations invoked over a behaviour
MaxClock    == 4   \* last clock tick modelled
TicksPerSec == 3   \* clock ticks per second (system_clock is finer than 1 s)

\* ------------------------------------------------------ program constants
HostnameCap == 256 \* char hostname[256]
NUL         == 0   \* the terminating character of a C string

\* Memory of a segment is counted in units of one map node.
SegmentOverhead == 2 \* units taken by the segment manager itself
MapCost         == 1 \* units taken by the anonymous map_type object
NodeCost        == 1 \* units taken by one value_type node of the map
KeyCost         == 1 \* units taken by the character buffer of a long key_type

\* A key_type keeps a short text inside the string object itself; a text of this many
\* characters or more lives in a buffer taken from the segment through *g_allocator.
InternalBufferChars == 23

Null   == 0        \* an empty unique_ptr / nullptr / pid 0 / no object
Pids   == {1, 2, 3}  \* 1 and 2 are unrelated processes, 3 is created by fork()

\* ------------------------------------------------------------ input sets
SegNames == {"hc", "dns"}
Sizes    == {1, 2, 4}
Keys     == {<<1>>, <<1, 2>>}
\* A key too long for the string object's internal buffer.
LongKey  == [i \in 1..InternalBufferChars |-> 1 + (i % 9)]
\* Aliases fit the hostname buffer, the longest one exactly (255 characters and the NUL).
LongestAlias == [i \in 1..(HostnameCap - 1) |-> 1 + (i % 9)]
Aliases  == {<<7>>, <<8, 9>>, LongestAlias}
TTLs     == {0, 1}
\* The arguments insert_or_assign is called with.
InsertArgs ==
    {<<k, <<7>>, t>> : k \in Keys, t \in TTLs}
    \cup {<<<<1>>, a, 1>> : a \in Aliases}

VARIABLES
    clock,          \* system_clock, in ticks
    shm_ns,         \* OS namespace of shared-memory objects: name -> id or Null
    mtx_ns,         \* OS namespace of named mutexes: name -> id or Null
    segment,        \* id -> the managed segment (size, free units, the map)
    mutex,          \* id -> state of the sharable mutex
    alive,          \* the running processes
    g_segment_name, g_segment_size, g_mutex_name, g_owner_pid,
    g_segment, g_allocator, g_mutex, g_map,   \* per process globals
    pc, op,         \* per process: position inside a data operation, its arguments
    calls,          \* number of public operations invoked so far
    last,           \* the operation that completed last: caller, arguments, outcome
                    \* (b: the boolean returned, or whether init/deinit went past its
                    \* early return; gone: how many entries the operation removed)
    creator,        \* id -> pid whose init created the object
    written         \* <<id, key>> -> the insert_or_assign that wrote the stored entry:
                    \* its caller, clock tick, alias and ttl, and the length of the
                    \* alias it replaced

globals == <<g_segment_name, g_segment_size, g_mutex_name, g_owner_pid,
             g_segment, g_allocator, g_mutex, g_map>>
os      == <<shm_ns, mtx_ns, segment, mutex>>
vars    == <<clock, os, alive, globals, pc, op, calls, last, creator, written>>

\* ------------------------------------------------------------- C strings
\* Number of characters before the first NUL of s (all of s when it has none).
strlen(s) ==
    LET nuls == {i \in 1..Len(s) : s[i] = NUL}
    IN  IF nuls = {} THEN Len(s)
        ELSE (CHOOSE i \in nuls : \A j \in nuls : i <= j) - 1

\* std::string(const char*) / key_type{_key.data(), alloc}: the text up to the first NUL.
CString(s) == SubSeq(s, 1, strlen(s))

\* std::strncpy(dest, src, n): src's characters up to its NUL, then NULs, n in all.
\* Writes land in dest[1..n]; what lies past Len(dest) is not part of dest.
strncpy(dest, src, n) ==
    LET len == strlen(src)
    IN  [i \in 1..Len(dest) |->
            IF i <= n THEN (IF i <= len THEN src[i] ELSE NUL) ELSE dest[i]]

\* hostname{} : the zero-initialised buffer.
EmptyHostname == [i \in 1..HostnameCap |-> NUL]

\* A constructor that leaves room for a terminator by dropping the last character.
MakeAlias_one_short(_alias, _expiration, _expires_after) ==
    [hostname      |-> strncpy(EmptyHostname, _alias, Len(_alias) - 1),
     expiration    |-> _expiration,
     expires_after |-> _expires_after]

\* std::strncpy(hostname, _key.data(), _key.size()) writes _key.size() characters,
\* whatever hostname can hold.
CharsWritten(_alias) == Len(_alias)

\* The characters that land behind hostname, in the eight bytes that start off
\* bytes after its end.
Spill(_alias, off) ==
    SubSeq(_alias, HostnameCap + off + 1,
           IF CharsWritten(_alias) < HostnameCap + off + 8
           THEN CharsWritten(_alias) ELSE HostnameCap + off + 8)

\* An int64 member whose first bytes (the low ones) were overwritten with bytes.
RECURSIVE Overwritten(_, _)
Overwritten(value, bytes) ==
    IF bytes = <<>> THEN value
    ELSE Head(bytes) + 256 * Overwritten(value \div 256, Tail(bytes))

\* struct alias's constructor: the members are initialised, then the body copies
\* the alias; characters past the end of hostname land in expiration and
\* expires_after, the members that follow it.
MakeAlias(_alias, _expiration, _expires_after) ==
    [hostname      |-> strncpy(EmptyHostname, _alias, CharsWritten(_alias)),
     expiration    |-> Overwritten(_expiration, Spill(_alias, 0)),
     expires_after |-> Overwritten(_expires_after, Spill(_alias, 8))]

\* The bytes of an int64 member up to its first zero byte.
RECURSIVE BytesBeforeZero(_)
BytesBeforeZero(value) ==
    IF value % 256 = 0 THEN <<>>
    ELSE <<value % 256>> \o BytesBeforeZero(value \div 256)

\* return iter->second.hostname: a std::string built from the characters up to the
\* first NUL; a hostname without one is read on into the bytes of expiration.
ReturnedText(entry) ==
    IF strlen(entry.hostname) < HostnameCap THEN CString(entry.hostname)
    ELSE entry.hostname \o BytesBeforeZero(entry.expiration)

\* mutex name derived from the segment name.
MutexName(name) == name \o "_mutex"

MutexNames == {MutexName(n) : n \in SegNames}

\* ------------------------------------------------------------------ time
\* Integer division of C++ (truncation towards zero), as duration_cast does.
TruncDiv(a, b) == IF a >= 0 THEN a \div b ELSE -((-a) \div b)

current_timestamp_in_seconds == TruncDiv(clock, TicksPerSec)

\* An expiration rounded up to the next full second instead of truncated.
ExpirationFor_rounded_up(ttl) ==
    TruncDiv(clock + ttl * TicksPerSec + TicksPerSec - 1, TicksPerSec)

\* An expiration that is the time of the call, the ttl left out.
ExpirationFor_now_only(ttl) == TruncDiv(clock, TicksPerSec)

\* tp = clock_type::now() + _expires_after; duration_cast<seconds>(tp).count()
ExpirationFor(ttl) == TruncDiv(clock + ttl * TicksPerSec, TicksPerSec)

\* --------------------------------------------------------------- the map
EmptyMap == [k \in {} |-> Null]

\* key_type{_key.data(), *g_allocator}: the units the key's text takes from the segment.
KeyAlloc(key) == IF Len(key) < InternalBufferChars THEN 0 ELSE KeyCost

\* Nodes that give nothing back to the segment when they go.
MapUnits_nothing(m) == 0

\* The units held by the nodes of map m and by the buffers of their keys.
MapUnits(m) ==
    NodeCost * Cardinality(DOMAIN m)
    + KeyCost * Cardinality({k \in DOMAIN m : KeyAlloc(k) > 0})

\* std::map::insert instead of insert_or_assign: an existing entry is kept.
MapPut_keep(m, k, a) == [x \in (DOMAIN m) \cup {k} |-> IF x \in DOMAIN m THEN m[x] ELSE a]

\* map_type::insert_or_assign
MapPut(m, k, a) == [x \in (DOMAIN m) \cup {k} |-> IF x = k THEN a ELSE m[x]]

\* An erase that leaves the entry in place.
MapErase_nothing(m, k) == m

\* An erase that takes every entry with it.
MapErase_all(m, k) == EmptyMap

\* map_type::erase(key)
MapErase(m, k) == [x \in (DOMAIN m) \ {k} |-> m[x]]

\* A clear that leaves the entries in place.
MapClear_keep(m) == m

\* map_type::clear()
MapClear(m) == EmptyMap

\* std::less<key_type>: lexicographic order of the characters.
RECURSIVE LexLess(_, _)
LexLess(a, b) ==
    IF b = <<>> THEN FALSE
    ELSE IF a = <<>> THEN TRUE
    ELSE IF Head(a) # Head(b) THEN Head(a) < Head(b)
    ELSE LexLess(Tail(a), Tail(b))

\* *begin() of the keys still to be visited.
FirstKey(S) == CHOOSE k \in S : \A o \in S \ {k} : LexLess(k, o)

\* A sweep that keeps the entries expiring in the current second.
IsExpired_strict(now, entry) == now > entry.expiration

\* The condition under which the sweep erases an entry.
IsExpired(now, entry) == now >= entry.expiration

\* The loop of erase_expired_entries: visits the keys in order, erasing in place.
RECURSIVE SweepLoop(_, _, _)
SweepLoop(m, todo, now) ==
    IF todo = {} THEN m
    ELSE LET k == FirstKey(todo)
         IN  SweepLoop(IF IsExpired(now, m[k]) THEN MapErase(m, k) ELSE m,
                       todo \ {k}, now)

\* A lookup that still serves an entry in the second it expires.
IsFresh_inclusive(now, entry) == now <= entry.expiration

\* The condition under which lookup serves an entry.
IsFresh(now, entry) == now < entry.expiration

\* --------------------------------------------------------- records
NoOp == [name |-> "none", key |-> <<>>, alias |-> <<>>, ttl |-> 0]

NoLast ==
    [pid |-> Null, name |-> "none", key |-> <<>>, alias |-> <<>>, ttl |-> 0,
     segname |-> "", size |-> 0,
     id |-> Null, kind |-> "none", b |-> FALSE, text |-> <<>>, n |-> 0, gone |-> 0]

NewSegment(size) ==
    [size |-> size, free |-> size - SegmentOverhead, map_alive |-> FALSE, map |-> EmptyMap]

NewMutex == [exclusive_in |-> FALSE, num_sharable |-> 0]

\* Next object id; ids are handed out in order.
NextId == Cardinality(DOMAIN segment) + 1

\* ------------------------------------------------------------------ Init
Init ==
    /\ clock = 0
    /\ shm_ns = [n \in SegNames |-> Null]
    /\ mtx_ns = [n \in MutexNames |-> Null]
    /\ segment = [i \in {} |-> Null]
    /\ mutex = [i \in {} |-> Null]
    /\ alive = {1, 2}
    /\ g_segment_name = [p \in Pids |-> ""]
    /\ g_segment_size = [p \in Pids |-> 0]
    /\ g_mutex_name = [p \in Pids |-> ""]
    /\ g_owner_pid = [p \in Pids |-> Null]
    /\ g_segment = [p \in Pids |-> Null]
    /\ g_allocator = [p \in Pids |-> Null]
    /\ g_mutex = [p \in Pids |-> Null]
    /\ g_map = [p \in Pids |-> Null]
    /\ pc = [p \in Pids |-> "idle"]
    /\ op = [p \in Pids |-> NoOp]
    /\ calls = 0
    /\ last = NoLast
    /\ creator = [i \in {} |-> Null]
    /\ written = [x \in {} |-> 0]

\* A public operation is invoked by a running process that is not inside another one.
CanCall(p) == p \in alive /\ pc[p] = "idle" /\ calls < MaxCalls

\* ------------------------------------------------------------- lifecycle
\* An init that leaves the objects of an earlier session in the namespace.
remove_nothing(ns, name) == ns

\* bi::named_sharable_mutex::remove / bi::shared_memory_object::remove:
\* the name leaves the namespace; processes that mapped the object keep it.
remove(ns, name) == [ns EXCEPT ![name] = Null]

\* An init without the owner check.
init_never_returns_early(p) == FALSE

\* if (getpid() == g_owner_pid) return;
init_returns_early(p) == p = g_owner_pid[p]

\* A deinit without the owner check.
deinit_never_returns_early(p) == FALSE

\* if (getpid() != g_owner_pid) return;
deinit_returns_early(p) == p # g_owner_pid[p]

\* What init leaves in `last`.
InitRecord(p, name, size, kind) ==
    [NoLast EXCEPT !.pid = p, !.name = "init", !.segname = name, !.size = size,
                   !.kind = kind, !.b = ~init_returns_early(p)]

init(p, _shm_name, _shm_size) ==
    /\ CanCall(p)
    /\ calls' = calls + 1
    /\ UNCHANGED <<clock, alive, pc, op, written>>
    /\ IF init_returns_early(p)
       THEN /\ last' = InitRecord(p, _shm_name, _shm_size, "void")
            /\ UNCHANGED <<os, globals, creator>>
       ELSE LET mname == MutexName(_shm_name)
                mtx1  == remove(mtx_ns, mname)
                shm1  == remove(shm_ns, _shm_name)
                id    == NextId
                seg0  == NewSegment(_shm_size)
                \* create_only: the name must be free and the size must hold the manager
                seg_ok == shm1[_shm_name] = Null /\ _shm_size >= SegmentOverhead
                mtx_ok == mtx1[mname] = Null
                map_ok == seg0.free >= MapCost
            IN  /\ g_segment_name' = [g_segment_name EXCEPT ![p] = _shm_name]
                /\ g_segment_size' = [g_segment_size EXCEPT ![p] = _shm_size]
                /\ g_mutex_name' = [g_mutex_name EXCEPT ![p] = mname]
                /\ g_owner_pid' = [g_owner_pid EXCEPT ![p] = p]
                /\ IF ~seg_ok
                   THEN \* make_unique<managed_shared_memory> throws
                        /\ shm_ns' = shm1
                        /\ mtx_ns' = mtx1
                        /\ UNCHANGED <<segment, mutex, creator,
                                       g_segment, g_allocator, g_mutex, g_map>>
                        /\ last' = InitRecord(p, _shm_name, _shm_size, "throw")
                   ELSE /\ shm_ns' = [shm1 EXCEPT ![_shm_name] = id]
                        /\ creator' = [i \in (DOMAIN creator) \cup {id} |->
                                          IF i = id THEN p ELSE creator[i]]
                        /\ g_segment' = [g_segment EXCEPT ![p] = id]
                        /\ g_allocator' = [g_allocator EXCEPT ![p] = id]
                        /\ IF ~mtx_ok
                           THEN \* make_unique<named_sharable_mutex> throws
                                /\ mtx_ns' = mtx1
                                /\ segment' = [i \in (DOMAIN segment) \cup {id} |->
                                                  IF i = id THEN seg0 ELSE segment[i]]
                                /\ UNCHANGED <<mutex, g_mutex, g_map>>
                                /\ last' = InitRecord(p, _shm_name, _shm_size, "throw")
                           ELSE /\ mtx_ns' = [mtx1 EXCEPT ![mname] = id]
                                /\ mutex' = [i \in (DOMAIN mutex) \cup {id} |->
                                                IF i = id THEN NewMutex ELSE mutex[i]]
                                /\ g_mutex' = [g_mutex EXCEPT ![p] = id]
                                /\ IF ~map_ok
                                   THEN \* construct<map_type> throws bad_alloc
                                        /\ segment' = [i \in (DOMAIN segment) \cup {id} |->
                                                          IF i = id THEN seg0 ELSE segment[i]]
                                        /\ UNCHANGED g_map
                                        /\ last' = InitRecord(p, _shm_name, _shm_size, "throw")
                                   ELSE /\ segment' =
                                             [i \in (DOMAIN segment) \cup {id} |->
                                                 IF i = id
                                                 THEN [seg0 EXCEPT !.free = @ - MapCost,
                                                                   !.map_alive = TRUE]
                                                 ELSE segment[i]]
                                        /\ g_map' = [g_map EXCEPT ![p] = id]
                                        /\ last' = InitRecord(p, _shm_name, _shm_size, "void")

\* What deinit leaves in `last`.
DeinitRecord(p, kind) ==
    [NoLast EXCEPT !.pid = p, !.name = "deinit", !.kind = kind,
                   !.b = ~deinit_returns_early(p)]

\* A teardown that forgets the map.
destroy_nothing(seg) == seg

\* g_segment->destroy_ptr(g_map): the map's nodes and the map go back to the segment.
destroy_map(seg) ==
    [seg EXCEPT !.free = @ + MapCost + MapUnits(seg.map),
                !.map_alive = FALSE, !.map = EmptyMap]

\* The entries of segment id are gone: nothing is recorded about them any more.
Forget(id) == [x \in {y \in DOMAIN written : y[1] # id} |-> written[x]]

deinit(p) ==
    /\ CanCall(p)
    /\ calls' = calls + 1
    /\ UNCHANGED <<clock, pc, op, creator, mutex,
                   g_segment_name, g_segment_size, g_mutex_name>>
    /\ IF deinit_returns_early(p)
       THEN /\ last' = DeinitRecord(p, "void")
            /\ UNCHANGED <<shm_ns, mtx_ns, segment, alive, written,
                           g_owner_pid, g_segment, g_allocator, g_mutex, g_map>>
       ELSE /\ g_owner_pid' = [g_owner_pid EXCEPT ![p] = Null]
            /\ IF g_segment[p] # Null /\ g_map[p] # Null /\ g_map[p] # g_segment[p]
               THEN \* g_map points into a segment this process unmapped: undefined.
                    \* Either the process dies there, or the call goes on.
                    \/ /\ alive' = alive \ {p}
                       /\ last' = DeinitRecord(p, "undefined")
                       /\ UNCHANGED <<shm_ns, mtx_ns, segment, written,
                                      g_segment, g_allocator, g_mutex, g_map>>
                    \/ /\ g_map' = [g_map EXCEPT ![p] = Null]
                       /\ g_mutex' = [g_mutex EXCEPT ![p] = Null]
                       /\ g_allocator' = [g_allocator EXCEPT ![p] = Null]
                       /\ g_segment' = [g_segment EXCEPT ![p] = Null]
                       /\ mtx_ns' = remove(mtx_ns, g_mutex_name[p])
                       /\ shm_ns' = remove(shm_ns, g_segment_name[p])
                       /\ last' = DeinitRecord(p, "undefined")
                       /\ UNCHANGED <<segment, written, alive>>
               ELSE /\ IF g_segment[p] # Null /\ g_map[p] # Null
                       THEN /\ segment' = [segment EXCEPT ![g_map[p]] = destroy_map(@)]
                            /\ written' = Forget(g_map[p])
                       ELSE UNCHANGED <<segment, written>>
                    /\ g_map' = [g_map EXCEPT ![p] =
                                    IF g_segment[p] # Null THEN Null ELSE @]
                    /\ g_mutex' = [g_mutex EXCEPT ![p] = Null]
                    /\ g_allocator' = [g_allocator EXCEPT ![p] = Null]
                    /\ g_segment' = [g_segment EXCEPT ![p] = Null]
                    /\ mtx_ns' = remove(mtx_ns, g_mutex_name[p])
                    /\ shm_ns' = remove(shm_ns, g_segment_name[p])
                    /\ last' = [DeinitRecord(p, "void") EXCEPT !.gone =
                                   IF g_segment[p] # Null /\ g_map[p] # Null
                                   THEN Cardinality(DOMAIN segment[g_map[p]].map)
                                   ELSE 0]
                    /\ UNCHANGED alive

\* fork(): the child starts with a copy of the parent's globals and mappings.
fork(parent, child) ==
    /\ parent \in alive /\ pc[parent] = "idle"
    /\ child \notin alive /\ pc[child] = "idle"
    /\ alive' = alive \cup {child}
    /\ g_segment_name' = [g_segment_name EXCEPT ![child] = g_segment_name[parent]]
    /\ g_segment_size' = [g_segment_size EXCEPT ![child] = g_segment_size[parent]]
    /\ g_mutex_name' = [g_mutex_name EXCEPT ![child] = g_mutex_name[parent]]
    /\ g_owner_pid' = [g_owner_pid EXCEPT ![child] = g_owner_pid[parent]]
    /\ g_segment' = [g_segment EXCEPT ![child] = g_segment[parent]]
    /\ g_allocator' = [g_allocator EXCEPT ![child] = g_allocator[parent]]
    /\ g_mutex' = [g_mutex EXCEPT ![child] = g_mutex[parent]]
    /\ g_map' = [g_map EXCEPT ![child] = g_map[parent]]
    /\ UNCHANGED <<clock, os, pc, op, calls, last, creator, written>>

\* The clock advances.
Tick ==
    /\ clock < MaxClock
    /\ clock' = clock + 1
    /\ UNCHANGED <<os, alive, globals, pc, op, calls, last, creator, written>>

\* ------------------------------------------------------- the named lock
ExclusiveOps ==
    {[NoOp EXCEPT !.name = "insert_or_assign", !.key = x[1], !.alias = x[2], !.ttl = x[3]] :
        x \in InsertArgs}
    \cup {[NoOp EXCEPT !.name = "erase", !.key = k] : k \in Keys}
    \cup {[NoOp EXCEPT !.name = n] : n \in {"erase_expired_entries", "clear"}}

SharableOps ==
    {[NoOp EXCEPT !.name = "lookup", !.key = k] : k \in Keys}
    \cup {[NoOp EXCEPT !.name = n] : n \in {"size", "available_memory"}}

\* A data operation is called; the constructor of its lock has yet to pass the
\* first gate. (Calls made this way are not counted: a caller may go on for ever.)
invoke(p, o) ==
    /\ p \in alive /\ pc[p] = "idle"
    /\ g_mutex[p] # Null
    /\ pc' = [pc EXCEPT ![p] = "first_gate"]
    /\ op' = [op EXCEPT ![p] = o]
    /\ UNCHANGED <<clock, os, alive, globals, calls, last, creator, written>>

\* Process p reaches the first gate with operation o: it calls o now, or it called
\* o before and has waited at the gate since.
Arrives(p, o) ==
    \/ CanCall(p) /\ calls' = calls + 1
    \/ pc[p] = "first_gate" /\ op[p] = o /\ calls' = calls

\* A writer that takes the lock at once, readers or not.
second_gate_always_open(m) == TRUE

\* while (num_shared) second_gate.wait(): the writer goes on when no reader is left.
second_gate_open(m) == m.num_sharable = 0

\* Readers that enter although a writer is in or waiting.
sharable_gate_always_open(m) == TRUE

\* while (exclusive_in) first_gate.wait(): readers enter while no writer is in or waiting.
sharable_gate_open(m) == ~m.exclusive_in

\* bi::scoped_lock lk{*g_mutex}: past the first gate once no writer is in or waiting;
\* the writer then has the lock as soon as no reader is left.
lock(p, o) ==
    /\ Arrives(p, o)
    /\ g_mutex[p] # Null
    /\ ~mutex[g_mutex[p]].exclusive_in
    /\ mutex' = [mutex EXCEPT ![g_mutex[p]].exclusive_in = TRUE]
    /\ pc' = [pc EXCEPT ![p] =
                 IF second_gate_open(mutex[g_mutex[p]]) THEN "exclusive" ELSE "second_gate"]
    /\ op' = [op EXCEPT ![p] = o]
    /\ UNCHANGED <<clock, shm_ns, mtx_ns, segment, alive, globals, last,
                   creator, written>>

\* The waiting writer gets the lock when the last reader has left.
lock_second_gate(p) ==
    /\ pc[p] = "second_gate"
    /\ second_gate_open(mutex[g_mutex[p]])
    /\ pc' = [pc EXCEPT ![p] = "exclusive"]
    /\ UNCHANGED <<clock, os, alive, globals, op, calls, last, creator, written>>

\* bi::sharable_lock lk{*g_mutex}: readers enter while no writer is in or waiting.
lock_sharable(p, o) ==
    /\ Arrives(p, o)
    /\ g_mutex[p] # Null
    /\ sharable_gate_open(mutex[g_mutex[p]])
    /\ mutex' = [mutex EXCEPT ![g_mutex[p]].num_sharable = @ + 1]
    /\ pc' = [pc EXCEPT ![p] = "sharable"]
    /\ op' = [op EXCEPT ![p] = o]
    /\ UNCHANGED <<clock, shm_ns, mtx_ns, segment, alive, globals, last,
                   creator, written>>

\* A way out of a mutating operation that leaves the lock taken.
unlock_keeps_lock(p) ==
    /\ mutex' = mutex
    /\ pc' = [pc EXCEPT ![p] = "idle"]
    /\ op' = [op EXCEPT ![p] = NoOp]

\* ~scoped_lock
unlock(p) ==
    /\ mutex' = [mutex EXCEPT ![g_mutex[p]].exclusive_in = FALSE]
    /\ pc' = [pc EXCEPT ![p] = "idle"]
    /\ op' = [op EXCEPT ![p] = NoOp]

\* ~sharable_lock
unlock_sharable(p) ==
    /\ mutex' = [mutex EXCEPT ![g_mutex[p]].num_sharable = @ - 1]
    /\ pc' = [pc EXCEPT ![p] = "idle"]
    /\ op' = [op EXCEPT ![p] = NoOp]

\* g_map, g_allocator and g_segment point at a live map in the mapped segment.
MapUsable(p) ==
    /\ g_segment[p] # Null
    /\ g_allocator[p] = g_segment[p]
    /\ g_map[p] = g_segment[p]
    /\ segment[g_map[p]].map_alive

\* What a data operation leaves in `last`.
DataRecord(p, kind, b, text, n, gone) ==
    [NoLast EXCEPT !.pid = p, !.name = op[p].name, !.key = op[p].key,
                   !.alias = op[p].alias, !.ttl = op[p].ttl, !.id = g_segment[p],
                   !.kind = kind, !.b = b, !.text = text, !.n = n, !.gone = gone]

\* The ticks recorded for the entries that map m of segment id still holds.
Remember(id, m) ==
    [x \in {y \in DOMAIN written : y[1] # id \/ y[2] \in DOMAIN m} |-> written[x]]

\* ------------------------------------------------------- data operations
insert_or_assign(p) ==
    /\ pc[p] = "exclusive" /\ op[p].name = "insert_or_assign"
    /\ MapUsable(p)
    /\ \/ \* the copy ran past hostname (undefined) and the process died in it,
          \* holding the lock
          /\ CharsWritten(op[p].alias) > HostnameCap
          /\ alive' = alive \ {p}
          /\ last' = DataRecord(p, "undefined", FALSE, <<>>, CharsWritten(op[p].alias), 0)
          /\ UNCHANGED <<segment, written, mutex, pc, op>>
       \/ \* the call goes on with the entry it built
          /\ LET id         == g_map[p]
                 m          == segment[id].map
                 expiration == ExpirationFor(op[p].ttl)
                 key        == CString(op[p].key)
                 inserted   == key \notin DOMAIN m
                 \* the temporary key's buffer, and a node when the key is new (the
                 \* node takes the temporary's buffer over; an assignment gives it back)
                 need       == KeyAlloc(key) + (IF inserted THEN NodeCost ELSE 0)
             IN  IF segment[id].free < need
                 THEN \* the buffer or the node cannot be allocated: bad_alloc leaves
                      \* the map as it was
                      /\ last' = DataRecord(p, "throw", FALSE, <<>>,
                                            CharsWritten(op[p].alias), 0)
                      /\ UNCHANGED <<segment, written>>
                 ELSE /\ segment' =
                           [segment EXCEPT
                              ![id].map = MapPut(m, key,
                                                 MakeAlias(op[p].alias, expiration,
                                                           op[p].ttl)),
                              ![id].free = IF inserted THEN @ - need ELSE @]
                      /\ written' =
                           [x \in (DOMAIN written) \cup {<<id, key>>} |->
                               IF x = <<id, key>>
                               THEN [by |-> p, at |-> clock, ttl |-> op[p].ttl,
                                     alias |-> op[p].alias,
                                     over |-> IF inserted THEN 0
                                              ELSE strlen(m[key].hostname)]
                               ELSE written[x]]
                      /\ last' = DataRecord(p, "bool", inserted, <<>>,
                                            CharsWritten(op[p].alias), 0)
          /\ unlock(p)
          /\ UNCHANGED alive
    /\ UNCHANGED <<clock, shm_ns, mtx_ns, globals, calls, creator>>

lookup(p) ==
    /\ pc[p] = "sharable" /\ op[p].name = "lookup"
    /\ MapUsable(p)
    /\ LET m   == segment[g_map[p]].map
           key == CString(op[p].key)
       IN  IF segment[g_map[p]].free < KeyAlloc(key)
           THEN \* the temporary key cannot be allocated: bad_alloc
                last' = DataRecord(p, "throw", FALSE, <<>>, 0, 0)
           ELSE IF key \in DOMAIN m /\ IsFresh(current_timestamp_in_seconds, m[key])
           THEN last' = DataRecord(p, "value", FALSE, ReturnedText(m[key]), 0, 0)
           ELSE last' = DataRecord(p, "absent", FALSE, <<>>, 0, 0)
    /\ unlock_sharable(p)
    /\ UNCHANGED <<clock, shm_ns, mtx_ns, segment, alive, globals, calls,
                   creator, written>>

erase(p) ==
    /\ pc[p] = "exclusive" /\ op[p].name = "erase"
    /\ MapUsable(p)
    /\ LET id  == g_map[p]
           m   == segment[id].map
           key == CString(op[p].key)
       IN  IF segment[id].free < KeyAlloc(key)
           THEN \* the temporary key cannot be allocated: bad_alloc
                /\ last' = DataRecord(p, "throw", FALSE, <<>>, 0, 0)
                /\ UNCHANGED <<segment, written>>
           ELSE /\ segment' = [segment EXCEPT
                                 ![id].map = MapErase(m, key),
                                 ![id].free = @ + MapUnits(m) - MapUnits(MapErase(m, key))]
                /\ written' = Remember(id, MapErase(m, key))
                /\ last' = DataRecord(p, "void", FALSE, <<>>, 0,
                                      Cardinality(DOMAIN m)
                                      - Cardinality(DOMAIN MapErase(m, key)))
    /\ unlock(p)
    /\ UNCHANGED <<clock, shm_ns, mtx_ns, alive, globals, calls, creator>>

erase_expired_entries(p) ==
    /\ pc[p] = "exclusive" /\ op[p].name = "erase_expired_entries"
    /\ MapUsable(p)
    /\ LET id    == g_map[p]
           m     == segment[id].map
           now   == current_timestamp_in_seconds
           swept == SweepLoop(m, DOMAIN m, now)
       IN  /\ segment' = [segment EXCEPT
                            ![id].map = swept,
                            ![id].free = @ + MapUnits(m) - MapUnits(swept)]
           /\ written' = Remember(id, swept)
           /\ last' = DataRecord(p, "void", FALSE, <<>>, 0,
                                 Cardinality(DOMAIN m) - Cardinality(DOMAIN swept))
    /\ unlock(p)
    /\ UNCHANGED <<clock, shm_ns, mtx_ns, alive, globals, calls, creator>>

clear(p) ==
    /\ pc[p] = "exclusive" /\ op[p].name = "clear"
    /\ MapUsable(p)
    /\ LET id == g_map[p]
           m  == segment[id].map
       IN  /\ segment' = [segment EXCEPT
                            ![id].map = MapClear(m),
                            ![id].free = @ + MapUnits(m) - MapUnits(MapClear(m))]
           /\ written' = Remember(id, EmptyMap)
           /\ last' = DataRecord(p, "void", FALSE, <<>>, 0, Cardinality(DOMAIN m))
    /\ unlock(p)
    /\ UNCHANGED <<clock, shm_ns, mtx_ns, alive, globals, calls, creator>>

size(p) ==
    /\ pc[p] = "sharable" /\ op[p].name = "size"
    /\ MapUsable(p)
    /\ last' = DataRecord(p, "size", FALSE, <<>>,
                          Cardinality(DOMAIN segment[g_map[p]].map), 0)
    /\ unlock_sharable(p)
    /\ UNCHANGED <<clock, shm_ns, mtx_ns, segment, alive, globals, calls,
                   creator, written>>

available_memory(p) ==
    /\ pc[p] = "sharable" /\ op[p].name = "available_memory"
    /\ g_segment[p] # Null
    /\ last' = DataRecord(p, "size", FALSE, <<>>, segment[g_segment[p]].free, 0)
    /\ unlock_sharable(p)
    /\ UNCHANGED <<clock, shm_ns, mtx_ns, segment, alive, globals, calls,
                   creator, written>>

\* The body dereferences a pointer that is null or points at a destroyed map (or
\* into an unmapped segment): undefined. The process dies holding the lock, or it
\* returns something and releases the lock.
undefined_access(p) ==
    /\ pc[p] \in {"exclusive", "sharable"}
    /\ IF op[p].name = "available_memory" THEN g_segment[p] = Null ELSE ~MapUsable(p)
    /\ \/ /\ alive' = alive \ {p}
          /\ last' = DataRecord(p, "undefined", FALSE, <<>>, 0, 0)
          /\ UNCHANGED <<mutex, pc, op>>
       \/ /\ last' = DataRecord(p, "undefined", FALSE, <<>>, 0, 0)
          /\ IF pc[p] = "exclusive" THEN unlock(p) ELSE unlock_sharable(p)
          /\ UNCHANGED alive
    /\ UNCHANGED <<clock, shm_ns, mtx_ns, segment, globals, calls, creator, written>>

\* --------------------------------------------------------- specifications
\* The data operations of one process on a cache it created.
DataPids  == {1}
DataNames == {"hc"}
DataSizes == {4, 5}

NextData ==
    \/ \E p \in DataPids, n \in DataNames, s \in DataSizes : init(p, n, s)
    \/ Tick
    \/ \E p \in DataPids, o \in ExclusiveOps : lock(p, o)
    \/ \E p \in DataPids, o \in SharableOps : lock_sharable(p, o)
    \/ \E p \in DataPids : insert_or_assign(p)
    \/ \E p \in DataPids : lookup(p)
    \/ \E p \in DataPids : erase(p)
    \/ \E p \in DataPids : erase_expired_entries(p)
    \/ \E p \in DataPids : clear(p)
    \/ \E p \in DataPids : size(p)
    \/ \E p \in DataPids : available_memory(p)

SpecData == Init /\ [][NextData]_vars

\* The lifecycle across processes: two unrelated processes and a forked child,
\* with one insert and the read-only operations to observe the cache.
LifeExclusiveOps ==
    {[NoOp EXCEPT !.name = "insert_or_assign", !.key = <<1>>, !.alias = <<7>>, !.ttl = 1]}

LifeSharableOps ==
    {[NoOp EXCEPT !.name = "lookup", !.key = <<1>>], [NoOp EXCEPT !.name = "size"]}

\* init's arguments: every size under one name, and a second name at a size
\* that fits the map.
LifeInits ==
    {<<"hc", s>> : s \in Sizes} \cup {<<"dns", 4>>}

NextLife ==
    \/ \E p \in Pids, a \in LifeInits : init(p, a[1], a[2])
    \/ \E p \in Pids : deinit(p)
    \/ \E p \in Pids, c \in Pids : fork(p, c)
    \/ \E p \in Pids, o \in LifeExclusiveOps : lock(p, o)
    \/ \E p \in Pids : lock_second_gate(p)
    \/ \E p \in Pids, o \in LifeSharableOps : lock_sharable(p, o)
    \/ \E p \in Pids : insert_or_assign(p)
    \/ \E p \in Pids : lookup(p)
    \/ \E p \in Pids : size(p)
    \/ \E p \in Pids : undefined_access(p)

SpecLife == Init /\ [][NextLife]_vars

\* A cache shared by the process that created it and its forked child: every data
\* operation, on one key.
SharePids == {1, 3}

ShareExclusiveOps ==
    {[NoOp EXCEPT !.name = "insert_or_assign", !.key = <<1>>, !.alias = <<7>>, !.ttl = 1],
     [NoOp EXCEPT !.name = "erase", !.key = <<1>>],
     [NoOp EXCEPT !.name = "erase_expired_entries"],
     [NoOp EXCEPT !.name = "clear"]}

ShareSharableOps ==
    {[NoOp EXCEPT !.name = "lookup", !.key = <<1>>],
     [NoOp EXCEPT !.name = "size"],
     [NoOp EXCEPT !.name = "available_memory"]}

\* The body of the data operation process p is in.
Body(p) ==
    \/ insert_or_assign(p)
    \/ lookup(p)
    \/ erase(p)
    \/ erase_expired_entries(p)
    \/ clear(p)
    \/ size(p)
    \/ available_memory(p)

NextShare ==
    \/ init(1, "hc", 4)
    \/ fork(1, 3)
    \/ Tick
    \/ \E p \in SharePids, o \in ShareExclusiveOps : lock(p, o)
    \/ \E p \in SharePids : lock_second_gate(p)
    \/ \E p \in SharePids, o \in ShareSharableOps : lock_sharable(p, o)
    \/ \E p \in SharePids : Body(p)

SpecShare == Init /\ [][NextShare]_vars

\* The same cache with callers that go on calling for ever, each call waiting at
\* the first gate until it is let in.
Enter(p) ==
    /\ pc[p] = "first_gate"
    /\ \/ \E o \in ShareExclusiveOps : lock(p, o)
       \/ \E o \in ShareSharableOps : lock_sharable(p, o)

NextFair ==
    \/ g_owner_pid[1] = Null /\ init(1, "hc", 4)
    \/ fork(1, 3)
    \/ \E p \in SharePids, o \in ShareExclusiveOps \cup ShareSharableOps : invoke(p, o)
    \/ \E p \in SharePids : Enter(p)
    \/ \E p \in SharePids : lock_second_gate(p)
    \/ \E p \in SharePids : Body(p)

\* Scheduling: a process that is in an operation's body, or at the second gate with
\* the gate open, goes on; a caller at the first gate gets in if the gate is open
\* again and again (it may lose the race for it some of the times).
Fairness ==
    \A p \in SharePids :
        /\ SF_vars(Enter(p))
        /\ WF_vars(lock_second_gate(p))
        /\ WF_vars(Body(p))

SpecFair == Init /\ [][NextFair]_vars /\ Fairness

\* One process on a segment that holds one or two units besides the map, with a
\* key that needs a buffer of its own.
FullKeys == {<<1>>, LongKey}

FullExclusiveOps ==
    {[NoOp EXCEPT !.name = "insert_or_assign", !.key = k, !.alias = <<7>>, !.ttl = t] :
        k \in FullKeys, t \in TTLs}
    \cup {[NoOp EXCEPT !.name = "erase", !.key = k] : k \in FullKeys}
    \cup {[NoOp EXCEPT !.name = n] : n \in {"erase_expired_entries", "clear"}}

FullSharableOps ==
    {[NoOp EXCEPT !.name = "lookup", !.key = k] : k \in FullKeys}
    \cup {[NoOp EXCEPT !.name = "size"]}

NextFull ==
    \/ \E s \in DataSizes : init(1, "hc", s)
    \/ \E o \in FullExclusiveOps : lock(1, o)
    \/ \E o \in FullSharableOps : lock_sharable(1, o)
    \/ insert_or_assign(1)
    \/ lookup(1)
    \/ erase(1)
    \/ erase_expired_entries(1)
    \/ clear(1)
    \/ size(1)

SpecFull == Init /\ [][NextFull]_vars

\* One process that stores aliases as long as the hostname buffer allows, and longer.
FullAlias     == [i \in 1..HostnameCap |-> 1 + (i % 9)]

OverlongAlias == [i \in 1..(HostnameCap + 1) |-> 1 + (i % 9)]

AliasExclusiveOps ==
    {[NoOp EXCEPT !.name = "insert_or_assign", !.key = <<1>>, !.alias = a, !.ttl = 1] :
        a \in {<<7>>, LongestAlias, FullAlias, OverlongAlias}}

AliasSharableOps == {[NoOp EXCEPT !.name = "lookup", !.key = <<1>>]}

NextAlias ==
    \/ init(1, "hc", 4)
    \/ Tick
    \/ \E o \in AliasExclusiveOps : lock(1, o)
    \/ \E o \in AliasSharableOps : lock_sharable(1, o)
    \/ insert_or_assign(1)
    \/ lookup(1)

SpecAlias == Init /\ [][NextAlias]_vars


\* ------------------------------------------------------------ properties
\* Seconds since the epoch at clock tick t.
SecondsOf(t) == t \div TicksPerSec

\* The text a hostname buffer holds.
TextOf(h) == SelectSeq(h, LAMBDA c : c # NUL)

\* The map of the cache process p is attached to.
MapOf(p) == segment[g_map[p]].map

Count(m) == Cardinality(DOMAIN m)

\* C1: lookup(k) returns the stored alias of k exactly when the map holds an entry
\* for k and now < its expiration; with no entry, or with an entry whose
\* expiration <= now that was not swept yet, it returns absent.
C1_LookupServesFreshEntriesOnly ==
    [][\A p \in Pids : lookup(p) =>
          LET m == MapOf(p)
              k == op[p].key
          IN  IF k \in DOMAIN m /\ SecondsOf(clock) < m[k].expiration
              THEN last'.kind = "value" /\ last'.text = TextOf(m[k].hostname)
              ELSE last'.kind = "absent"]_vars

\* A lookup returned absent for a key whose expired entry is still in the map.
C1_Witness ==
    /\ last.name = "lookup" /\ last.kind = "absent"
    /\ last.id \in DOMAIN segment
    /\ last.key \in DOMAIN segment[last.id].map
    /\ segment[last.id].map[last.key].expiration <= SecondsOf(clock)

\* C2: with ttl > 0, a lookup(k) that directly follows insert_or_assign(k, v, ttl)
\* in the same clock second returns exactly v, whether k was new or held another,
\* possibly longer, alias before.
C2_LookupAfterInsertReturnsAlias ==
    [][\A p \in Pids :
          /\ lookup(p)
          /\ last.name = "insert_or_assign" /\ last.kind = "bool"
          /\ last.id = g_map[p] /\ last.key = op[p].key
          /\ last.ttl > 0
          /\ SecondsOf(written[<<last.id, last.key>>].at) = SecondsOf(clock)
          => last'.kind = "value" /\ last'.text = last.alias]_vars

\* A lookup returned the alias that an insert_or_assign of the same second wrote
\* over a longer one.
C2_Witness ==
    /\ last.name = "lookup" /\ last.kind = "value"
    /\ <<last.id, last.key>> \in DOMAIN written
    /\ LET w == written[<<last.id, last.key>>]
       IN  /\ w.ttl > 0
           /\ SecondsOf(w.at) = SecondsOf(clock)
           /\ w.over > Len(last.text)

\* C3: an insert_or_assign(k, v, ttl) that returns gives true and one entry more
\* when k had no entry, and false and the same number of entries when k had one
\* (expired or not); the entry of k then holds v, now + ttl and ttl, and the entry
\* of every other key is as before.
C3_InsertOrAssignResult ==
    [][\A p \in Pids : insert_or_assign(p) /\ last'.kind = "bool" =>
          LET m   == MapOf(p)
              m2  == segment'[g_map[p]].map
              k   == op[p].key
          IN  /\ last'.b = (k \notin DOMAIN m)
              /\ Count(m2) = Count(m) + (IF k \in DOMAIN m THEN 0 ELSE 1)
              /\ k \in DOMAIN m2
              /\ TextOf(m2[k].hostname) = op[p].alias
              /\ m2[k].expiration = SecondsOf(clock) + op[p].ttl
              /\ m2[k].expires_after = op[p].ttl
              /\ \A o \in Keys \ {k} :
                    /\ o \in DOMAIN m2 <=> o \in DOMAIN m
                    /\ o \in DOMAIN m => m2[o] = m[o]]_vars

\* An insert_or_assign returned false for a key that had an entry, next to the
\* entry of another key.
C3_Witness ==
    /\ last.name = "insert_or_assign" /\ last.kind = "bool" /\ ~last.b
    /\ last.id \in DOMAIN segment
    /\ Count(segment[last.id].map) = 2
    /\ written[<<last.id, last.key>>].over > 0
    /\ TextOf(segment[last.id].map[last.key].hostname) = last.alias

\* C4: once insert_or_assign(k, v, ttl) happened at t0 with no later one for k,
\* every lookup(k) at a time later than t0 + ttl returns absent, also when the
\* entry was never swept and is still in the map.
C4_LazyExpiration ==
    [][\A p \in Pids :
          /\ lookup(p)
          /\ <<g_map[p], op[p].key>> \in DOMAIN written
          /\ LET w == written[<<g_map[p], op[p].key>>]
             IN  clock > w.at + w.ttl * TicksPerSec
          => last'.kind = "absent"]_vars

\* A lookup later than t0 + ttl, ttl > 0, returned absent while the entry, never
\* swept, is still in the map.
C4_Witness ==
    /\ last.name = "lookup" /\ last.kind = "absent"
    /\ <<last.id, last.key>> \in DOMAIN written
    /\ last.key \in DOMAIN segment[last.id].map
    /\ LET w == written[<<last.id, last.key>>]
       IN  w.ttl > 0 /\ clock > w.at + w.ttl * TicksPerSec

\* C5: erase_expired_entries removes exactly the entries whose expiration <= now,
\* now being the clock of the call, and leaves every other entry as it was; the
\* number of entries drops by the number of expired ones.
C5_SweepRemovesExactlyExpired ==
    [][\A p \in Pids : erase_expired_entries(p) =>
          LET m    == MapOf(p)
              m2   == segment'[g_map[p]].map
              now  == SecondsOf(clock)
              dead == {k \in DOMAIN m : m[k].expiration <= now}
          IN  /\ DOMAIN m2 = (DOMAIN m) \ dead
              /\ \A k \in DOMAIN m2 : m2[k] = m[k]
              /\ Count(m2) = Count(m) - Cardinality(dead)]_vars

\* A sweep removed one entry and kept another.
C5_Witness ==
    /\ last.name = "erase_expired_entries"
    /\ last.gone = 1
    /\ last.id \in DOMAIN segment
    /\ Count(segment[last.id].map) = 1


\* Everything but the bookkeeping of calls.
program == <<clock, os, alive, globals, pc, op, creator, written>>

\* C6: the named shared-memory object and the named lock of a session leave the OS
\* namespace only through the process whose init created them; neither an init
\* nor a deinit of another process removes them.
C6_OnlyCreatorRemovesNamedObjects ==
    [][/\ \A n \in SegNames :
            shm_ns[n] # Null /\ shm_ns'[n] # shm_ns[n]
            => last'.pid = creator[shm_ns[n]]
       /\ \A n \in MutexNames :
            mtx_ns[n] # Null /\ mtx_ns'[n] # mtx_ns[n]
            => last'.pid = creator[mtx_ns[n]]]_vars

\* C7: deinit by a process whose pid differs from its stored owner pid changes
\* nothing: named objects, map, lock state and its own handles stay, and whoever
\* could use the cache still can.
C7_DeinitByNonOwnerIsNoOp ==
    [][\A p \in Pids : deinit(p) /\ g_owner_pid[p] # p =>
          /\ UNCHANGED program
          /\ \A q \in Pids : MapUsable(q) => MapUsable(q)']_vars

\* A forked child, holding the owner's pid and handles, called deinit and the
\* cache with its entry is still there.
C7_Witness ==
    /\ last.name = "deinit" /\ last.kind = "void"
    /\ g_owner_pid[last.pid] \notin {Null, last.pid}
    /\ MapUsable(last.pid)
    /\ Count(MapOf(last.pid)) > 0
    /\ shm_ns[g_segment_name[last.pid]] = g_segment[last.pid]

\* C8: init by the process that is already the owner changes nothing, whatever
\* its arguments: no object is recreated, entries, stored name, size and owner
\* pid stay.
C8_InitByOwnerIsNoOp ==
    [][\A p \in Pids, n \in SegNames, s \in Sizes :
          init(p, n, s) /\ g_owner_pid[p] = p => UNCHANGED program]_vars

\* The owner called init again with another name and size; its cache still holds
\* its entry.
C8_Witness ==
    /\ last.name = "init" /\ last.kind = "void"
    /\ g_owner_pid[last.pid] = last.pid
    /\ last.segname # g_segment_name[last.pid]
    /\ last.size # g_segment_size[last.pid]
    /\ MapUsable(last.pid)
    /\ Count(MapOf(last.pid)) > 0

\* C9: init(name, size) by a process that is not the owner takes whatever lock and
\* segment exist under name + "_mutex" and name out of the namespace and creates
\* new ones; when it returns, the caller is the owner and its cache is empty.
C9_InitCreatesFreshCache ==
    [][\A p \in Pids, n \in SegNames, s \in Sizes :
          init(p, n, s) /\ g_owner_pid[p] # p =>
             /\ shm_ns[n] # Null => shm_ns'[n] # shm_ns[n]
             /\ mtx_ns[n \o "_mutex"] # Null => mtx_ns'[n \o "_mutex"] # mtx_ns[n \o "_mutex"]
             /\ last'.kind = "void" =>
                   /\ g_owner_pid'[p] = p
                   /\ g_segment'[p] \notin DOMAIN segment
                   /\ g_mutex'[p] \notin DOMAIN mutex
                   /\ shm_ns'[n] = g_segment'[p]
                   /\ mtx_ns'[n \o "_mutex"] = g_mutex'[p]
                   /\ g_map'[p] = g_segment'[p] /\ g_allocator'[p] = g_segment'[p]
                   /\ segment'[g_map'[p]].map_alive
                   /\ Count(segment'[g_map'[p]].map) = 0]_vars

\* An init returned with an empty cache under a name whose earlier segment, which
\* another process still maps, holds an entry.
C9_Witness ==
    /\ last.name = "init" /\ last.kind = "void" /\ last.b
    /\ MapUsable(last.pid)
    /\ shm_ns[last.segname] = g_segment[last.pid]
    /\ Count(MapOf(last.pid)) = 0
    /\ \E q \in Pids \ {last.pid} :
          /\ g_segment_name[q] = last.segname
          /\ MapUsable(q)
          /\ g_segment[q] # g_segment[last.pid]
          /\ Count(MapOf(q)) > 0

\* C10: when deinit by the owner returns, the map is destroyed, the owner's
\* segment, allocator, lock and map handles are empty, both names are gone from
\* the namespace and the owner marker is cleared; a deinit that follows changes
\* nothing and an init that follows creates a new, empty cache.
C10_DeinitByOwnerTearsDown ==
    [][\A p \in Pids :
          /\ deinit(p) /\ g_owner_pid[p] = p /\ last'.kind = "void" =>
                /\ g_map[p] # Null => ~segment'[g_map[p]].map_alive
                /\ g_segment'[p] = Null /\ g_allocator'[p] = Null
                /\ g_mutex'[p] = Null /\ g_map'[p] = Null
                /\ shm_ns'[g_segment_name[p]] = Null
                /\ mtx_ns'[g_mutex_name[p]] = Null
                /\ g_owner_pid'[p] = Null
          /\ deinit(p) /\ last.name = "deinit" /\ last.pid = p /\ last.kind = "void"
                => UNCHANGED program
          /\ \A n \in SegNames, s \in Sizes :
                /\ init(p, n, s) /\ last'.kind = "void"
                /\ last.name = "deinit" /\ last.pid = p /\ last.kind = "void"
                => /\ g_segment'[p] \notin DOMAIN segment
                   /\ segment'[g_map'[p]].map_alive
                   /\ Count(segment'[g_map'[p]].map) = 0]_vars

\* The owner's deinit went through: its handles are empty, its names are gone
\* and the map of the segment it created, which held an entry, is destroyed.
C10_Witness ==
    /\ last.name = "deinit" /\ last.kind = "void" /\ last.b
    /\ last.gone = 1
    /\ g_segment[last.pid] = Null /\ g_map[last.pid] = Null
    /\ g_owner_pid[last.pid] = Null
    /\ shm_ns[g_segment_name[last.pid]] = Null
    /\ \E i \in DOMAIN segment : creator[i] = last.pid /\ ~segment[i].map_alive

\* C11: processes attached to the same segment see each other's mutations. A
\* lookup(k) by B, after A's insert_or_assign(k, v, ttl) with ttl > 0, before the
\* entry expires and with no erase, clear or reassignment of k since, returns v;
\* after an erase(k) or a clear by A, B's next lookup(k) returns absent and B's
\* next size counts k no more (zero after a clear).
C11_AttachedProcessesSeeEachOther ==
    [][\A p \in Pids :
          /\ /\ lookup(p)
             /\ <<g_map[p], op[p].key>> \in DOMAIN written
             /\ LET w == written[<<g_map[p], op[p].key>>]
                IN  /\ w.by # p /\ w.ttl > 0
                    /\ SecondsOf(clock) < SecondsOf(w.at) + w.ttl
             => /\ last'.kind = "value"
                /\ last'.text = written[<<g_map[p], op[p].key>>].alias
          /\ /\ lookup(p)
             /\ last.pid # p /\ last.id = g_map[p]
             /\ \/ last.name = "erase" /\ last.key = op[p].key
                \/ last.name = "clear"
             => last'.kind = "absent"
          /\ /\ size(p)
             /\ last.pid # p /\ last.id = g_map[p]
             => /\ last.name = "erase" =>
                      last'.n = Cardinality((DOMAIN MapOf(p)) \ {last.key})
                /\ last.name = "clear" => last'.n = 0]_vars

\* A lookup returned, to a process that did not write it, the alias another
\* process stored.
C11_Witness ==
    /\ last.name = "lookup" /\ last.kind = "value"
    /\ <<last.id, last.key>> \in DOMAIN written
    /\ written[<<last.id, last.key>>].by # last.pid
    /\ last.text = written[<<last.id, last.key>>].alias

\* The operations that take the lock in exclusive mode, and those that share it.
MutatingNames == {"insert_or_assign", "erase", "erase_expired_entries", "clear"}

ReadOnlyNames == {"lookup", "size", "available_memory"}

\* C12: a process is inside a mutating operation only with the lock held exclusive
\* and inside a read-only one only with the lock held shared; while one process is
\* inside a mutating operation no other process on the same lock is inside any
\* data operation. (Several readers may be inside together.)
C12_ReaderWriterExclusion ==
    \A p \in Pids :
        /\ pc[p] = "exclusive" =>
              /\ op[p].name \in MutatingNames
              /\ mutex[g_mutex[p]].exclusive_in
              /\ mutex[g_mutex[p]].num_sharable = 0
              /\ \A q \in Pids \ {p} :
                    g_mutex[q] = g_mutex[p] => pc[q] \notin {"exclusive", "sharable"}
        /\ pc[p] = "sharable" =>
              /\ op[p].name \in ReadOnlyNames
              /\ mutex[g_mutex[p]].num_sharable
                    >= Cardinality({q \in Pids : pc[q] = "sharable"
                                                 /\ g_mutex[q] = g_mutex[p]})

\* Two processes are inside read-only operations on the same cache at once.
C12_Witness ==
    /\ pc[1] = "sharable" /\ pc[3] = "sharable"
    /\ g_mutex[1] = g_mutex[3]
    /\ mutex[g_mutex[1]].num_sharable = 2

\* C13: an insert_or_assign that finds too little free space fails towards its
\* caller and leaves the map exactly as it was; the data operation called next
\* works as specified: lookup returns the alias of a fresh entry and absent
\* otherwise, erase removes the key's entry, erase_expired_entries the expired
\* ones, clear all of them, and an insert_or_assign that returns has stored its
\* entry.
C13_ExhaustionLeavesCacheUsable ==
    [][\A p \in Pids :
          /\ insert_or_assign(p) /\ last'.kind = "throw" =>
                /\ segment[g_map[p]].free < NodeCost + KeyCost
                /\ segment' = segment
          /\ last.name = "insert_or_assign" /\ last.kind = "throw" /\ last.pid = p =>
                LET m  == MapOf(p)
                    m2 == segment'[g_map[p]].map
                    k  == op[p].key
                IN  /\ lookup(p) =>
                          IF k \in DOMAIN m /\ SecondsOf(clock) < m[k].expiration
                          THEN last'.kind = "value" /\ last'.text = TextOf(m[k].hostname)
                          ELSE last'.kind = "absent"
                    /\ erase(p) =>
                          /\ last'.kind = "void"
                          /\ DOMAIN m2 = (DOMAIN m) \ {k}
                    /\ erase_expired_entries(p) =>
                          /\ last'.kind = "void"
                          /\ DOMAIN m2 = {x \in DOMAIN m : m[x].expiration > SecondsOf(clock)}
                    /\ clear(p) => last'.kind = "void" /\ m2 = EmptyMap
                    /\ insert_or_assign(p) =>
                          IF last'.kind = "bool"
                          THEN k \in DOMAIN m2 /\ TextOf(m2[k].hostname) = op[p].alias
                          ELSE m2 = m]_vars

\* C14: erase(k) removes the entry of k when there is one, expired or not, and
\* changes nothing and raises no error when there is none; the entries of the
\* other keys stay as they are and the number of entries drops by one or by zero.
C14_EraseRemovesOnlyItsKey ==
    [][\A p \in Pids : erase(p) =>
          LET m  == MapOf(p)
              m2 == segment'[g_map[p]].map
              k  == op[p].key
          IN  /\ last'.kind = "void"
              /\ DOMAIN m2 = (DOMAIN m) \ {k}
              /\ \A o \in DOMAIN m2 : m2[o] = m[o]
              /\ Count(m2) = Count(m) - (IF k \in DOMAIN m THEN 1 ELSE 0)
              /\ k \notin DOMAIN m => m2 = m]_vars

\* An erase took one entry out and the entry of the other key is still there.
C14_Witness ==
    /\ last.name = "erase" /\ last.kind = "void"
    /\ last.gone = 1
    /\ last.id \in DOMAIN segment
    /\ Count(segment[last.id].map) = 1
    /\ last.key \notin DOMAIN segment[last.id].map

\* The entries of segment id that an insert_or_assign wrote and nothing removed.
WrittenIn(id) == {x \in DOMAIN written : x[1] = id}

\* The cache of process p was cleared and no insert_or_assign has written to it
\* since: the clear was the last operation, or nothing written is left.
NoInsertSinceClear(p) ==
    \/ last.name = "clear" /\ last.id = g_map[p]
    \/ WrittenIn(g_map[p]) = {}

\* C15: after a clear, until some process calls insert_or_assign again, size
\* yields 0 and every lookup returns absent, whichever process asks.
C15_ClearEmptiesTheCache ==
    [][\A p \in Pids :
          /\ clear(p) => segment'[g_map[p]].map = EmptyMap
          /\ size(p) /\ NoInsertSinceClear(p) => last'.n = 0
          /\ lookup(p) /\ NoInsertSinceClear(p) => last'.kind = "absent"]_vars

\* A clear by one process took an entry out and the other process is about to
\* return from size.
C15_Witness ==
    /\ last.name = "clear" /\ last.gone = 1
    /\ \E q \in Pids \ {last.pid} :
          /\ pc[q] = "sharable" /\ op[q].name = "size"
          /\ g_map[q] = last.id
          /\ Count(MapOf(q)) = 0

\* What available_memory called by process p would return.
Free(p) == segment[g_segment[p]].free

\* C16 as the specification words it: available_memory is not larger after an
\* insert_or_assign than before it, and larger after a clear than before it.
C16_ClearAlwaysFreesMemory ==
    [][\A p \in Pids :
          /\ available_memory(p) => last'.n = Free(p) /\ segment' = segment
          /\ insert_or_assign(p) => Free(p)' <= Free(p)
          /\ clear(p) => Free(p)' > Free(p)]_vars

\* C16: available_memory returns the free units of the segment; they drop with an
\* insert_or_assign of a new key and stay with one that assigns or fails; after a
\* clear they are never fewer, and more exactly when the clear removed an entry.
C16_AvailableMemoryFollowsEntries ==
    [][\A p \in Pids :
          /\ available_memory(p) => last'.n = Free(p) /\ segment' = segment
          /\ insert_or_assign(p) =>
                /\ Free(p)' <= Free(p)
                /\ Free(p)' < Free(p) <=> last'.kind = "bool" /\ last'.b
          /\ clear(p) =>
                /\ Free(p)' >= Free(p)
                /\ Free(p)' > Free(p) <=> Count(MapOf(p)) > 0]_vars

\* A clear gave the units of two entries back: the segment is as free as it was
\* when the map was built.
C16_Witness ==
    /\ last.name = "clear" /\ last.gone = 2
    /\ last.id \in DOMAIN segment
    /\ segment[last.id].free = segment[last.id].size - SegmentOverhead - MapCost

C18_DeinitWaitsForDataOperations ==
    [][\A p \in Pids : deinit(p) /\ ~deinit_returns_early(p) =>
          \A q \in Pids \ {p} :
             \/ g_mutex[q] # Null /\ g_mutex[q] = g_mutex[p]
             \/ g_map[q] # Null /\ g_map[q] = g_map[p]
             => pc[q] = "idle"]_vars

\* C19: building an entry writes at most 256 characters at hostname and leaves
\* a terminated text in the buffer: the alias itself when it has at most 255
\* characters, and a leading part of it otherwise (unless the call rejects it).
C19_AliasStaysInsideBuffer ==
    [][\A p \in Pids : insert_or_assign(p) /\ last'.kind # "throw" =>
          /\ last'.kind = "bool"
          /\ last'.n <= HostnameCap
          /\ LET h == segment'[g_map[p]].map[op[p].key].hostname
                 n == Len(op[p].alias)
             IN  /\ Len(h) = HostnameCap
                 /\ \E i \in 1..HostnameCap : h[i] = NUL
                 /\ n <= HostnameCap - 1 => CString(h) = op[p].alias
                 /\ n > HostnameCap - 1 =>
                       CString(h) = SubSeq(op[p].alias, 1, strlen(h))]_vars

C21_OwnerHasItsObjects ==
    \A p \in alive :
        pc[p] = "idle" /\ g_owner_pid[p] = p =>
           /\ g_segment[p] # Null /\ g_allocator[p] # Null
           /\ g_mutex[p] # Null /\ g_map[p] # Null
           /\ shm_ns[g_segment_name[p]] # Null
           /\ mtx_ns[g_mutex_name[p]] # Null

\* The processes that hold, or have claimed, lock id in exclusive mode, and those
\* that hold it in shared mode.
Writers(id) == {p \in Pids : pc[p] \in {"exclusive", "second_gate"} /\ g_mutex[p] = id}

Readers(id) == {p \in Pids : pc[p] = "sharable" /\ g_mutex[p] = id}

\* C22: every way out of a data operation gives the lock back, the bad_alloc of
\* insert_or_assign, lookup and erase included: the lock is marked exclusive only
\* while some process is in (or at the second gate of) a mutating operation, and
\* it counts exactly the processes that are inside read-only operations.
C22_LockReleasedOnEveryExit ==
    [][/\ \A id \in DOMAIN mutex' :
             /\ mutex'[id].exclusive_in <=> Writers(id)' # {}
             /\ mutex'[id].num_sharable = Cardinality(Readers(id)')
       /\ \A p \in Pids :
             (insert_or_assign(p) \/ lookup(p) \/ erase(p)) /\ last'.kind = "throw" =>
                /\ pc'[p] = "idle"
                /\ ~mutex'[g_mutex[p]].exclusive_in
                /\ mutex'[g_mutex[p]].num_sharable = 0]_vars

\* An erase left through bad_alloc and the lock is free.
C22_Witness ==
    /\ last.name = "erase" /\ last.kind = "throw"
    /\ pc[last.pid] = "idle"
    /\ ~mutex[g_mutex[last.pid]].exclusive_in
    /\ mutex[g_mutex[last.pid]].num_sharable = 0

\* What lookup(k) by process p would do at the present clock: serve the entry.
WouldServe(m, k) == k \in DOMAIN m /\ IsFresh(current_timestamp_in_seconds, m[k])

\* C23: the sweep and the lazy check agree on the boundary: erase_expired_entries
\* removes an entry exactly when a lookup of its key at the same clock would
\* return absent, and when it is done a lookup at that clock would serve every
\* key that is still in the map.
C23_SweepAndLookupAgree ==
    [][\A p \in Pids : erase_expired_entries(p) =>
          LET m  == MapOf(p)
              m2 == segment'[g_map[p]].map
          IN  /\ \A k \in DOMAIN m : k \notin DOMAIN m2 <=> ~WouldServe(m, k)
              /\ \A k \in DOMAIN m2 : WouldServe(m2, k)
              /\ last'.gone = Cardinality({k \in DOMAIN m : ~WouldServe(m, k)})]_vars

\* A sweep removed one entry and kept another, which a lookup at the present
\* clock would be served.
C23_Witness ==
    /\ last.name = "erase_expired_entries" /\ last.gone = 1
    /\ last.id \in DOMAIN segment
    /\ \E k \in DOMAIN segment[last.id].map : WouldServe(segment[last.id].map, k)

====
